---- MODULE Spec2Model ----
(***************************************************************************)
(* Agent orchestration core of ai-job-research: the LangGraph workflow of  *)
(* app/agent.py (extract_skills -> think -> execute_tools -> reflect ->    *)
(* router -> generate_plan -> validate), the tool dispatcher of            *)
(* app/agent_tools.py and the event history of app/agent_events.py.        *)
(*                                                                         *)
(* Encoding of Python values:                                              *)
(*   Optional[dict]  None is [some |-> FALSE]; a dict d is                 *)
(*                   [some |-> TRUE, data |-> d] with d a function from    *)
(*                   keys to values, {} being the empty function << >>.    *)
(*   Optional[str]   None is the string NoneStr.                           *)
(*   float scores    integers in hundredths (0.7 is 70).                   *)
(*   a call          [raised |-> FALSE, value |-> v] when it returns v,    *)
(*                   [raised |-> TRUE, exc |-> msg] when it raises.        *)
(***************************************************************************)
EXTENDS Integers, Sequences, FiniteSets, TLC

VARIABLES
    pc,                        \* position of the run in the graph
    github_username,           \* AgentState["github_username"]
    current_skills,            \* AgentState["current_skills"]
    skills_required,           \* AgentState["skills_required"]
    skill_gaps,                \* AgentState["skill_gaps"]
    rag_results,               \* per-tool result slots
    skill_validation_results,
    market_research_results,
    gap_analysis_results,
    learning_plan_results,
    github_analysis_results,
    analysis_confidence_score,
    analysis_quality_score,
    validation_report,         \* AgentState["validation_report"]
    tool_call_count,
    max_tool_calls,
    executed_tools,
    agent_reasoning,
    reflection_iterations,
    learning_plan,
    tool_idx,                  \* position of the for loop of agent_execute_tools
    tool_type,                 \* loop variable of agent_execute_tools / argument of execute_tool
    outcome,                   \* what the capability behind the last tool call did
    result,                    \* what the last call (execute_tool, or an
                               \* operation of the event bus) returned
    route,                     \* last value returned by router
    events_history,            \* AgentEventEmitter.events_history
    max_history_size,          \* AgentEventEmitter.max_history_size
    subscribers,               \* AgentEventEmitter.subscribers
    session_id,                \* AgentEventEmitter.session_id
    emitted,                   \* history variable of the bus operations: every
                               \* event handed to emit, the run that did it and
                               \* the emitter's session_id at that moment
    invoked                    \* history variable: the subscriber calls made
                               \* by the latest bus operation, in order

vars == <<pc, github_username, current_skills, skills_required, skill_gaps,
          rag_results, skill_validation_results, market_research_results,
          gap_analysis_results, learning_plan_results, github_analysis_results,
          analysis_confidence_score, analysis_quality_score, validation_report,
          tool_call_count, max_tool_calls,
          executed_tools, agent_reasoning, reflection_iterations, learning_plan,
          tool_idx, tool_type, outcome, result, route, events_history,
          max_history_size, subscribers, session_id, emitted, invoked>>

----------------------------------------------------------------------------
(* Bounds of the model *)

MaxBudget == 3

\* longest declared skill list and number of GitHub results merged into it
MaxSkills == 2

MaxMerges == 2

\* events handed to the bus, retained events and registered subscribers
MaxEmits == 3

MaxCapacity == 2

MaxSubscribers == 2

----------------------------------------------------------------------------
(* Python values *)

None == [some |-> FALSE]

Some(d) == [some |-> TRUE, data |-> d]

EmptyDict == << >>

NoneStr == "None"

\* "x is not None" for an Optional[dict]
IsNotNone(x) == x.some

\* truth value of an Optional[dict]: None and {} are both false
Truthy(x) == x.some /\ DOMAIN x.data # {}

\* truth value of an Optional[str]: None and "" are both false
TruthyStr(s) == s # NoneStr /\ s # ""

Returned(v) == [raised |-> FALSE, value |-> v]

Raised(msg) == [raised |-> TRUE, exc |-> msg]

NoCall == [raised |-> FALSE, value |-> NoneStr]

NoOutcome == [fails |-> FALSE]

Min(a, b) == IF a <= b THEN a ELSE b

Max(a, b) == IF a >= b THEN a ELSE b

Last(s) == s[Len(s)]

\* the elements of a list, as list(set(...)) sees them
ToSet(s) == {s[i] : i \in 1..Len(s)}

\* the lists list(set) can produce from a set: every order, no duplicates
ListsOf(S) == {s \in [1..Cardinality(S) -> S] : ToSet(s) = S}

----------------------------------------------------------------------------
(* ToolType, app/agent_tools.py *)

RAG_QUERY == "rag_query"
SKILL_VALIDATOR == "skill_validator"
MARKET_RESEARCH == "market_research"
LEARNING_PATH_GENERATOR == "learning_path_generator"
GAP_ANALYZER == "gap_analyzer"
GITHUB_ANALYZER == "github_analyzer"

ToolType == {RAG_QUERY, SKILL_VALIDATOR, MARKET_RESEARCH,
             LEARNING_PATH_GENERATOR, GAP_ANALYZER, GITHUB_ANALYZER}

ToolResult(tool, success, data, confidence, error) ==
    [tool |-> tool, success |-> success, data |-> data,
     confidence |-> confidence, error |-> error]

----------------------------------------------------------------------------
(* Behaviour of the capability clients behind the tools.  An outcome says  *)
(* whether the calls made inside the tool's try block raise and, if not,   *)
(* what they return.                                                       *)

Fails(msg) == [fails |-> TRUE, msg |-> msg]

Responds(payload) == [fails |-> FALSE, payload |-> payload]

ToolOutcomes(tool) ==
    CASE tool = GAP_ANALYZER ->
           {Fails("llm error"),
            Responds([gaps |-> <<"sql">>, detailed |-> "roadmap"])}
      [] tool = RAG_QUERY ->
           {Fails("rag error"),
            Responds([response |-> "insights",
                      evaluation |-> [relevance_score |-> 90],
                      resources |-> <<[topic |-> "sql", type |-> "course"]>>])}
      [] tool = SKILL_VALIDATOR ->
           {Fails("llm error"), Responds([content |-> "validation"])}
      [] tool = GITHUB_ANALYZER ->
           {Fails("network error"),
            Responds([languages |-> <<"go">>, technologies |-> <<>>,
                      project_types |-> <<>>, activity |-> 40])}
      [] tool = MARKET_RESEARCH ->
           {Fails("llm error"), Responds([content |-> "market"])}
      [] tool = LEARNING_PATH_GENERATOR ->
           {Fails("llm error"), Responds([content |-> "path"])}

\* dict.get(key, default)
Get(d, key, default) == IF key \in DOMAIN d THEN d[key] ELSE default

\* a tool without its try/except: the capability's exception leaves the tool
FailedResultRaises(tool, msg) == Raised(msg)

\* the except branch shared by every tool: a failed ToolResult, returned
FailedResult(tool, msg) == Returned(ToolResult(tool, FALSE, EmptyDict, 0, msg))

rag_query_tool(arg_skills_required, o) ==
    IF o.fails
    THEN FailedResult(RAG_QUERY, o.msg)
    ELSE Returned(ToolResult(RAG_QUERY, TRUE,
                     [rag_response |-> o.payload.response,
                      evaluation |-> o.payload.evaluation,
                      resources |-> o.payload.resources],
                     Get(o.payload.evaluation, "relevance_score", 70),
                     NoneStr))

skill_validator_tool(required_skills, arg_current_skills, o) ==
    IF o.fails
    THEN FailedResult(SKILL_VALIDATOR, o.msg)
    ELSE LET matched == Cardinality(ToSet(required_skills) \cap ToSet(arg_current_skills))
             confidence == IF Len(required_skills) > 0
                           THEN (matched * 100) \div Len(required_skills)
                           ELSE 50
         IN  Returned(ToolResult(SKILL_VALIDATOR, TRUE,
                         [validation_analysis |-> o.payload.content,
                          matched_skills |-> matched,
                          total_required |-> Len(required_skills)],
                         confidence, NoneStr))

market_research_tool(o) ==
    IF o.fails
    THEN FailedResult(MARKET_RESEARCH, o.msg)
    ELSE Returned(ToolResult(MARKET_RESEARCH, TRUE,
                     [market_analysis |-> o.payload.content], 80, NoneStr))

gap_analyzer_tool(o) ==
    IF o.fails
    THEN FailedResult(GAP_ANALYZER, o.msg)
    ELSE Returned(ToolResult(GAP_ANALYZER, TRUE,
                     [identified_gaps |-> o.payload.gaps,
                      gap_analysis |-> o.payload.detailed],
                     85, NoneStr))

learning_path_generator_tool(o) ==
    IF o.fails
    THEN FailedResult(LEARNING_PATH_GENERATOR, o.msg)
    ELSE Returned(ToolResult(LEARNING_PATH_GENERATOR, TRUE,
                     [learning_plan |-> o.payload.content], 80, NoneStr))

github_analyzer_tool(arg_github_username, o) ==
    IF o.fails
    THEN FailedResult(GITHUB_ANALYZER, "GitHub analysis failed: " \o o.msg)
    ELSE Returned(ToolResult(GITHUB_ANALYZER, TRUE,
                     [username |-> arg_github_username,
                      languages |-> o.payload.languages,
                      technologies |-> o.payload.technologies,
                      project_types |-> o.payload.project_types,
                      proven_skills |->
                          [programming_languages |->
                               SubSeq(o.payload.languages, 1,
                                      Min(5, Len(o.payload.languages))),
                           frameworks_and_tools |->
                               SubSeq(o.payload.technologies, 1,
                                      Min(10, Len(o.payload.technologies))),
                           experience_areas |-> o.payload.project_types]],
                     Min(100, o.payload.activity), NoneStr))

\* execute_tool(tool_type, **kwargs): the if/elif dispatch over ToolType
execute_tool(t, kwargs, o) ==
    CASE t = RAG_QUERY ->
           rag_query_tool(Get(kwargs, "skills_required", <<>>), o)
      [] t = SKILL_VALIDATOR ->
           skill_validator_tool(Get(kwargs, "required_skills", <<>>),
                                Get(kwargs, "current_skills", <<>>), o)
      [] t = MARKET_RESEARCH -> market_research_tool(o)
      [] t = GAP_ANALYZER -> gap_analyzer_tool(o)
      [] t = LEARNING_PATH_GENERATOR -> learning_path_generator_tool(o)
      [] t = GITHUB_ANALYZER ->
           github_analyzer_tool(Get(kwargs, "github_username", ""), o)
      [] OTHER -> Returned(ToolResult(t, FALSE, EmptyDict, 0, "Unknown tool"))


----------------------------------------------------------------------------
(* Event bus, app/agent_events.py *)

NODE_START == "node_start"
NODE_END == "node_end"
NODE_ERROR == "node_error"
TOOL_START == "tool_start"
TOOL_END == "tool_end"
THINKING == "thinking"
REASONING == "reasoning"
VALIDATION_RESULT == "validation_result"

DefaultMaxHistorySize == 1000

AgentEvent(type, node_name, tool_name, status, error) ==
    [type |-> type, node_name |-> node_name, tool_name |-> tool_name,
     status |-> status, error |-> error]

\* emit with pop() for pop(0): the newest event is dropped on overflow
emit_pops_last(history, event) ==
    LET appended == Append(history, event)
    IN  IF Len(appended) > max_history_size
        THEN SubSeq(appended, 1, Len(appended) - 1) ELSE appended

\* AgentEventEmitter.emit: append, then drop the oldest event on overflow
emit(history, event) ==
    LET appended == Append(history, event)
    IN  IF Len(appended) > max_history_size THEN Tail(appended) ELSE appended

\* AgentEventEmitter.emit_event
emit_event(history, type, node_name, tool_name, status, error) ==
    emit(history, AgentEvent(type, node_name, tool_name, status, error))

\* what the registered callbacks do when called: "broken" raises
Callbacks == {"sse", "broken"}

SubscriberCall(callback, event) ==
    IF callback = "broken" THEN Raised("callback failed") ELSE Returned(None)

\* the notification loop without its try/except
UnguardedCall(call) == call

\* "try: subscriber(event) except Exception: print(...)"
GuardedCall(call) == IF call.raised THEN Returned(None) ELSE call

\* "for subscriber in self.subscribers": the calls made and what emit returns
RECURSIVE Notify(_, _, _)
Notify(subs, event, done) ==
    IF subs = <<>>
    THEN [call |-> Returned(None), invoked |-> done]
    ELSE LET attempt == SubscriberCall(Head(subs), event)
             call == GuardedCall(attempt)
             noted == Append(done, [subscriber |-> Head(subs), event |-> event,
                                    raised |-> attempt.raised])
         IN  IF call.raised
             THEN [call |-> call, invoked |-> noted]
             ELSE Notify(Tail(subs), event, noted)

\* the node table of get_graph_visualization
NodeIds ==
    <<"extract_skills", "think", "execute_tools", "reflect", "generate_plan",
      "validate">>

NodeLabels ==
    <<"Extract Skills", "Agent Think", "Execute Tools", "Reflect",
      "Generate Plan", "Validate">>

GraphEdges ==
    <<[from |-> "extract_skills", to |-> "think"],
      [from |-> "think", to |-> "execute_tools"],
      [from |-> "execute_tools", to |-> "reflect"],
      [from |-> "reflect", to |-> "generate_plan"],
      [from |-> "generate_plan", to |-> "validate"]>>

\* a status update that takes any event naming the node for a start
StatusAfterAnyType(status, event, node) ==
    IF event.node_name # node
    THEN status
    ELSE CASE event.type = NODE_END -> "completed"
           [] event.type = NODE_ERROR -> "error"
           [] OTHER -> "processing"

\* the if/elif over the event type, for one node of the table
StatusAfter(status, event, node) ==
    IF event.node_name # node
    THEN status
    ELSE CASE event.type = NODE_START -> "processing"
           [] event.type = NODE_END -> "completed"
           [] event.type = NODE_ERROR -> "error"
           [] OTHER -> status

\* "for event in self.events_history": status of a node after the first k events
RECURSIVE NodeStatus(_, _, _)
NodeStatus(history, node, k) ==
    IF k = 0
    THEN "pending"
    ELSE StatusAfter(NodeStatus(history, node, k - 1), history[k], node)

\* AgentEventEmitter.get_graph_visualization
get_graph_visualization ==
    [nodes |-> [i \in 1..Len(NodeIds) |->
                   [id |-> NodeIds[i], label |-> NodeLabels[i],
                    status |-> NodeStatus(events_history, NodeIds[i],
                                          Len(events_history))]],
     edges |-> GraphEdges,
     session_id |-> session_id,
     total_events |-> Len(events_history)]

node_start(history, node) ==
    emit_event(history, NODE_START, node, NoneStr, "processing", NoneStr)

\* a NODE_END that does not name its node
node_end_unnamed(history, node) ==
    emit_event(history, NODE_END, NoneStr, NoneStr, "completed", NoneStr)

node_end(history, node) ==
    emit_event(history, NODE_END, node, NoneStr, "completed", NoneStr)

node_error(history, node, exc) ==
    emit_event(history, NODE_ERROR, node, NoneStr, NoneStr, exc)

----------------------------------------------------------------------------
(* Workflow graph, app/agent.py *)

END == "__end__"

ABORTED == "__raised__"

\* build_agent with the finish point set on generate_plan: validate never runs
EdgeSkipsValidate(node) ==
    CASE node = "extract_skills" -> "think"
      [] node = "think" -> "execute_tools"
      [] node = "execute_tools" -> "reflect"
      [] node = "generate_plan" -> END
      [] node = "validate" -> END

\* the fixed edges added by build_agent; validate is the finish point
Edge(node) ==
    CASE node = "extract_skills" -> "think"
      [] node = "think" -> "execute_tools"
      [] node = "execute_tools" -> "reflect"
      [] node = "generate_plan" -> "validate"
      [] node = "validate" -> END

\* router with the budget test written > instead of >=
router_late(state) ==
    IF state.tool_call_count > state.max_tool_calls
    THEN "generate_plan"
    ELSE IF Truthy(state.gap_analysis_results) /\ Truthy(state.rag_results)
         THEN "generate_plan"
         ELSE "execute_tools"

\* router that lets the loop run until the counter has passed the budget
router_one_more_pass(state) ==
    IF state.tool_call_count >= state.max_tool_calls + 1
    THEN "generate_plan"
    ELSE IF Truthy(state.gap_analysis_results) /\ Truthy(state.rag_results)
         THEN "generate_plan"
         ELSE "execute_tools"

\* router(state): the conditional edge leaving reflect
router(state) ==
    IF state.tool_call_count >= state.max_tool_calls
    THEN "generate_plan"
    ELSE IF Truthy(state.gap_analysis_results) /\ Truthy(state.rag_results)
         THEN "generate_plan"
         ELSE "execute_tools"

\* tools_to_execute with the GitHub analyzer appended instead of inserted at 0
ToolsToExecuteGitHubLast(username) ==
    IF TruthyStr(username)
    THEN <<GAP_ANALYZER, RAG_QUERY, SKILL_VALIDATOR, GITHUB_ANALYZER>>
    ELSE <<GAP_ANALYZER, RAG_QUERY, SKILL_VALIDATOR>>

\* tools_to_execute of agent_execute_tools
ToolsToExecute(username) ==
    IF TruthyStr(username)
    THEN <<GITHUB_ANALYZER, GAP_ANALYZER, RAG_QUERY, SKILL_VALIDATOR>>
    ELSE <<GAP_ANALYZER, RAG_QUERY, SKILL_VALIDATOR>>

\* the loop test written > instead of >=
BudgetExhaustedLate(count, maximum) == count > maximum

\* the test at the top of the for loop of agent_execute_tools
BudgetExhausted(count, maximum) == count >= maximum

\* a loop that breaks after a failed result
LoopAdvanceStopsOnFailure(idx, res) == IF res.success THEN idx + 1 ELSE idx + 4

\* "for tool_type in tools_to_execute": the loop moves on after every result
LoopAdvance(idx, res) == idx + 1

\* behaviour of llm_client.invoke in a node
LLMRaises == [fails |-> TRUE, msg |-> "llm unavailable"]


ExtractResponses ==
    {LLMRaises, Responds("python, sql")}

\* [skill.strip() for skill in content.split(",")] on the responses above
SplitSkills(content) ==
    CASE content = "python, sql" -> <<"python", "sql">>

\* response.content of think: free text with or without an embedded object
ThinkResponses ==
    {LLMRaises,
     Responds([json |-> "none"]),
     Responds([json |-> "invalid"]),
     Responds([json |-> "object",
               object |-> [reasoning |-> "gaps first",
                           selected_tools |-> <<"GAP_ANALYZER">>]]),
     Responds([json |-> "object",
               object |-> [reasoning |-> "gaps first",
                           selected_tools |-> <<"MARKET_RESEARCH",
                                                "LEARNING_PATH_GENERATOR">>]]),
     Responds([json |-> "object",
               object |-> [selected_tools |-> <<"RAG_QUERY">>]])}

ReflectResponses ==
    {LLMRaises,
     Responds([json |-> "none"]),
     Responds([json |-> "invalid"]),
     Responds([json |-> "object", object |-> [confidence_in_plan |-> 150]]),
     Responds([json |-> "object", object |-> [information_sufficient |-> TRUE]])}

PlanResponses == {LLMRaises, Responds("plan text")}

slots == <<rag_results, skill_validation_results, market_research_results,
           gap_analysis_results, learning_plan_results, github_analysis_results>>

\* the emitter fields that no node writes: the workflow registers no subscriber
bus == <<subscribers, session_id, emitted, invoked>>

inputs == <<github_username, max_tool_calls, max_history_size, bus>>

loop == <<tool_idx, tool_type, outcome, result>>

\* the fields that only self_validate_analysis writes
quality == <<analysis_quality_score, validation_report>>

\* the initial state built by JobAnalysisService.analyze_job
InitState ==
    /\ skills_required = <<>>
    /\ skill_gaps = <<>>
    /\ rag_results = None
    /\ skill_validation_results = None
    /\ market_research_results = None
    /\ gap_analysis_results = None
    /\ learning_plan_results = None
    /\ github_analysis_results = None
    /\ tool_call_count = 0
    /\ executed_tools = <<>>
    /\ agent_reasoning = <<>>
    /\ reflection_iterations = 0
    /\ learning_plan = ""
    /\ analysis_confidence_score = 0
    /\ analysis_quality_score = 0
    /\ validation_report = None

\* a key that the initial state does not define: state["key"] raises
\* KeyError, state.get("key") gives None
Missing == [some |-> FALSE, missing |-> TRUE]

\* the same for the numeric fields
MissingNumber == -1

\* the initial state built by analyze_job of app/main.py, which defines
\* neither github_username, github_analysis_results, validation_report,
\* reflection_iterations nor analysis_confidence_score
MainInitState ==
    /\ skills_required = <<>>
    /\ skill_gaps = <<>>
    /\ rag_results = None
    /\ skill_validation_results = None
    /\ market_research_results = None
    /\ gap_analysis_results = None
    /\ learning_plan_results = None
    /\ github_analysis_results = Missing
    /\ tool_call_count = 0
    /\ executed_tools = <<>>
    /\ agent_reasoning = <<>>
    /\ reflection_iterations = MissingNumber
    /\ learning_plan = ""
    /\ analysis_confidence_score = MissingNumber
    /\ analysis_quality_score = 0
    /\ validation_report = Missing

\* str(KeyError(key))
KeyError(key) == "'" \o key \o "'"

\* AgentEventEmitter.__init__
InitEmitter ==
    /\ subscribers = <<>>
    /\ events_history = <<>>
    /\ max_history_size = DefaultMaxHistorySize
    /\ session_id = NoneStr
    /\ emitted = <<>>
    /\ invoked = <<>>

Init ==
    /\ pc = "extract_skills"
    /\ github_username \in {NoneStr, "octocat"}
    /\ current_skills = <<"python">>
    /\ max_tool_calls \in 0..MaxBudget
    /\ InitState
    /\ InitEmitter
    /\ tool_idx = 0
    /\ tool_type = NoneStr
    /\ outcome = NoOutcome
    /\ result = NoCall
    /\ route = NoneStr

\* an except clause without its "raise": NODE_ERROR, then the node returns
\* and the graph follows the node's outgoing edge
NodeRaisesAndReturns(node, history, exc) ==
    /\ events_history' = node_error(history, node, exc)
    /\ pc' = IF node = "reflect" THEN "generate_plan" ELSE Edge(node)

\* the except clause of every node: NODE_ERROR, then the exception leaves the graph
NodeRaises(node, history, exc) ==
    /\ events_history' = node_error(history, node, exc)
    /\ pc' = ABORTED

\* extract_required_skills
ExtractSkills ==
    /\ pc = "extract_skills"
    /\ \E r \in ExtractResponses :
         LET started == node_start(events_history, "extract_skills")
         IN  IF r.fails
             THEN /\ NodeRaises("extract_skills", started, r.msg)
                  /\ UNCHANGED <<skills_required, agent_reasoning>>
             ELSE LET skills == SplitSkills(r.payload)
                  IN  /\ skills_required' = skills
                      /\ agent_reasoning' =
                           Append(agent_reasoning,
                                  "Extracted " \o ToString(Len(skills))
                                      \o " required skills from job description")
                      /\ events_history' = node_end(started, "extract_skills")
                      /\ pc' = Edge("extract_skills")
    /\ UNCHANGED <<inputs, quality, loop, slots, current_skills, skill_gaps,
                   analysis_confidence_score, tool_call_count, executed_tools,
                   reflection_iterations, learning_plan, route>>

\* the inner try of agent_think: re.search, json.loads and the two fallbacks
ThinkDecision(content) ==
    CASE content.json = "object" -> content.object
      [] content.json = "none" ->
           [reasoning |-> "Insufficient information, running all tools",
            selected_tools |-> <<"GAP_ANALYZER", "RAG_QUERY",
                                 "SKILL_VALIDATOR", "MARKET_RESEARCH">>,
            should_continue |-> TRUE,
            next_action |-> "Execute selected tools"]
      [] content.json = "invalid" ->
           [reasoning |-> "Error parsing decision, using default tools",
            selected_tools |-> <<"GAP_ANALYZER", "RAG_QUERY">>,
            should_continue |-> TRUE,
            next_action |-> "Execute selected tools"]

\* agent_think
Think ==
    /\ pc = "think"
    /\ \E r \in ThinkResponses :
         LET started == emit_event(node_start(events_history, "think"),
                                   THINKING, "think", NoneStr, NoneStr, NoneStr)
         IN  IF r.fails
             THEN /\ NodeRaises("think", started, r.msg)
                  /\ UNCHANGED agent_reasoning
             ELSE LET agent_decision == ThinkDecision(r.payload)
                  IN  IF "reasoning" \notin DOMAIN agent_decision
                      THEN /\ NodeRaises("think", started, "KeyError: 'reasoning'")
                           /\ UNCHANGED agent_reasoning
                      ELSE /\ agent_reasoning' =
                                Append(agent_reasoning, agent_decision.reasoning)
                           /\ events_history' =
                                node_end(emit_event(started, REASONING, "think",
                                                    NoneStr, NoneStr, NoneStr),
                                         "think")
                           /\ pc' = Edge("think")
    /\ UNCHANGED <<inputs, quality, loop, slots, current_skills, skills_required,
                   skill_gaps, analysis_confidence_score, tool_call_count,
                   executed_tools, reflection_iterations, learning_plan, route>>


\* agent_execute_tools up to the for loop: NODE_START, the tool list, the counter
ExecuteToolsStart ==
    /\ pc = "execute_tools"
    /\ events_history' = node_start(events_history, "execute_tools")
    /\ tool_call_count' = tool_call_count + 1
    /\ tool_idx' = 1
    /\ pc' = "tool_loop"
    /\ UNCHANGED <<inputs, quality, slots, current_skills, skills_required, skill_gaps,
                   analysis_confidence_score, executed_tools, agent_reasoning,
                   reflection_iterations, learning_plan, tool_type, outcome,
                   result, route>>

\* one more tool: the budget test passes, TOOL_START, execute_tool is entered
ToolStart ==
    /\ pc = "tool_loop"
    /\ tool_idx <= Len(ToolsToExecute(github_username))
    /\ ~BudgetExhausted(tool_call_count, max_tool_calls)
    /\ tool_type' = ToolsToExecute(github_username)[tool_idx]
    /\ events_history' =
         emit_event(events_history, TOOL_START, NoneStr,
                    ToolsToExecute(github_username)[tool_idx], "executing", NoneStr)
    /\ pc' = "tool_call"
    /\ UNCHANGED <<inputs, quality, slots, current_skills, skills_required, skill_gaps,
                   analysis_confidence_score, tool_call_count, executed_tools,
                   agent_reasoning, reflection_iterations, learning_plan,
                   tool_idx, outcome, result, route>>

\* "Store results based on tool type": the slot written for each tool
\* the skill validator's branch written to the market-research slot
StoreResultsInMarketSlot(t, data) ==
    /\ gap_analysis_results' =
         IF t = GAP_ANALYZER THEN Some(data) ELSE gap_analysis_results
    /\ skill_gaps' =
         IF t = GAP_ANALYZER
         THEN Get(data, "identified_gaps", skill_gaps) ELSE skill_gaps
    /\ rag_results' = IF t = RAG_QUERY THEN Some(data) ELSE rag_results
    /\ skill_validation_results' = skill_validation_results
    /\ market_research_results' =
         IF t \in {SKILL_VALIDATOR, MARKET_RESEARCH}
         THEN Some(data) ELSE market_research_results
    /\ learning_plan_results' =
         IF t = LEARNING_PATH_GENERATOR THEN Some(data) ELSE learning_plan_results
    /\ github_analysis_results' =
         IF t = GITHUB_ANALYZER THEN Some(data) ELSE github_analysis_results

\* "Store results based on tool type"
StoreResults(t, data) ==
    /\ gap_analysis_results' =
         IF t = GAP_ANALYZER THEN Some(data) ELSE gap_analysis_results
    /\ skill_gaps' =
         IF t = GAP_ANALYZER
         THEN Get(data, "identified_gaps", skill_gaps) ELSE skill_gaps
    /\ rag_results' = IF t = RAG_QUERY THEN Some(data) ELSE rag_results
    /\ skill_validation_results' =
         IF t = SKILL_VALIDATOR THEN Some(data) ELSE skill_validation_results
    /\ market_research_results' =
         IF t = MARKET_RESEARCH THEN Some(data) ELSE market_research_results
    /\ learning_plan_results' =
         IF t = LEARNING_PATH_GENERATOR THEN Some(data) ELSE learning_plan_results
    /\ github_analysis_results' =
         IF t = GITHUB_ANALYZER THEN Some(data) ELSE github_analysis_results

\* the GitHub branch written with list.extend: proven languages are appended
EnrichedSkillsExtend(t, res) ==
    IF t = GITHUB_ANALYZER /\ res.success /\ "proven_skills" \in DOMAIN res.data
    THEN {current_skills \o Get(res.data.proven_skills,
                                "programming_languages", <<>>)}
    ELSE {current_skills}

\* the GitHub branch: proven languages are added to current_skills through a set
EnrichedSkills(t, res) ==
    IF t = GITHUB_ANALYZER /\ res.success /\ "proven_skills" \in DOMAIN res.data
    THEN ListsOf(ToSet(current_skills)
                   \cup ToSet(Get(res.data.proven_skills,
                                  "programming_languages", <<>>)))
    ELSE {current_skills}

\* execute_tool returns (or raises), the result is stored, TOOL_END
ToolReturn ==
    /\ pc = "tool_call"
    /\ \E o \in ToolOutcomes(tool_type) :
         LET kwargs == [required_skills |-> skills_required,
                        current_skills |-> current_skills,
                        github_username |-> github_username]
             call == execute_tool(tool_type, kwargs, o)
         IN  /\ outcome' = o
             /\ result' = call
             /\ IF call.raised
                THEN /\ NodeRaises("execute_tools", events_history, call.exc)
                     /\ UNCHANGED <<slots, skill_gaps, current_skills,
                                    executed_tools, tool_idx>>
                ELSE /\ StoreResults(tool_type, call.value.data)
                     /\ current_skills' \in EnrichedSkills(tool_type, call.value)
                     /\ executed_tools' = Append(executed_tools, tool_type)
                     /\ events_history' =
                          emit_event(events_history, TOOL_END, NoneStr, tool_type,
                                     IF call.value.success
                                     THEN "completed" ELSE "error",
                                     NoneStr)
                     /\ tool_idx' = LoopAdvance(tool_idx, call.value)
                     /\ pc' = "tool_loop"
    /\ UNCHANGED <<inputs, quality, skills_required, analysis_confidence_score,
                   tool_call_count, agent_reasoning, reflection_iterations,
                   learning_plan, tool_type, route>>

\* the for loop ends (list exhausted or break): reasoning note, NODE_END
ExecuteToolsEnd ==
    /\ pc = "tool_loop"
    /\ \/ tool_idx > Len(ToolsToExecute(github_username))
       \/ BudgetExhausted(tool_call_count, max_tool_calls)
    /\ agent_reasoning' =
         Append(agent_reasoning,
                "Executed " \o ToString(Len(ToolsToExecute(github_username)))
                    \o " tools")
    /\ events_history' = node_end(events_history, "execute_tools")
    /\ pc' = Edge("execute_tools")
    /\ UNCHANGED <<inputs, quality, loop, slots, current_skills, skills_required,
                   skill_gaps, analysis_confidence_score, tool_call_count,
                   executed_tools, reflection_iterations, learning_plan, route>>

\* number of True values in a list of booleans
CountTrue(flags) == Cardinality({i \in 1..Len(flags) : flags[i]})

\* info_quality of agent_reflect
InfoQuality ==
    (CountTrue(<<IsNotNone(gap_analysis_results), IsNotNone(rag_results),
                 IsNotNone(skill_validation_results),
                 IsNotNone(github_analysis_results)>>) * 100) \div 4

\* the inner try of agent_reflect
ReflectConfidence(content, info_quality, previous) ==
    CASE content.json = "none" -> previous
      [] content.json = "invalid" -> info_quality
      [] content.json = "object" -> Get(content.object, "confidence_in_plan", 70)

RouterState ==
    [tool_call_count |-> tool_call_count,
     max_tool_calls |-> max_tool_calls,
     gap_analysis_results |-> gap_analysis_results,
     rag_results |-> rag_results]

\* agent_reflect, followed by the conditional edge
Reflect ==
    /\ pc = "reflect"
    /\ \E r \in ReflectResponses :
         LET started == node_start(events_history, "reflect")
             confidence == ReflectConfidence(r.payload, InfoQuality,
                                             analysis_confidence_score)
         IN  IF github_analysis_results = Missing
             THEN /\ NodeRaises("reflect", started,
                                KeyError("github_analysis_results"))
                  /\ UNCHANGED <<analysis_confidence_score, agent_reasoning, route>>
             ELSE IF r.fails
             THEN /\ NodeRaises("reflect", started, r.msg)
                  /\ UNCHANGED <<analysis_confidence_score, agent_reasoning, route>>
             ELSE IF confidence = MissingNumber
             THEN /\ NodeRaises("reflect", started,
                                KeyError("analysis_confidence_score"))
                  /\ UNCHANGED <<analysis_confidence_score, agent_reasoning, route>>
             ELSE /\ analysis_confidence_score' = confidence
                  /\ agent_reasoning' =
                       Append(agent_reasoning, "Reflected on analysis quality")
                  /\ events_history' = node_end(started, "reflect")
                  /\ route' = router(RouterState)
                  /\ pc' = router(RouterState)
    /\ UNCHANGED <<inputs, quality, loop, slots, current_skills, skills_required,
                   skill_gaps, tool_call_count, executed_tools,
                   reflection_iterations, learning_plan>>

\* generate_learning_plan
GeneratePlan ==
    /\ pc = "generate_plan"
    /\ \E r \in PlanResponses :
         LET started == node_start(events_history, "generate_plan")
         IN  IF r.fails
             THEN /\ NodeRaises("generate_plan", started, r.msg)
                  /\ UNCHANGED <<learning_plan, agent_reasoning>>
             ELSE /\ learning_plan' = r.payload
                  /\ agent_reasoning' =
                       Append(agent_reasoning,
                              "Generated comprehensive learning plan")
                  /\ events_history' = node_end(started, "generate_plan")
                  /\ pc' = Edge("generate_plan")
    /\ UNCHANGED <<inputs, quality, loop, slots, current_skills, skills_required,
                   skill_gaps, analysis_confidence_score, tool_call_count,
                   executed_tools, reflection_iterations, route>>

\* metrics["overall_confidence"] of calculate_analysis_metrics
OverallConfidence ==
    Min(100,
        (CountTrue(<<IsNotNone(rag_results), IsNotNone(skill_validation_results),
                     IsNotNone(market_research_results),
                     IsNotNone(gap_analysis_results),
                     IsNotNone(github_analysis_results)>>) * 100) \div 4)

----------------------------------------------------------------------------
(* Reflection engine, app/agent_reflection.py.  Its scores are fractions;  *)
(* they are kept exactly, as integers counting 1/Unit: every quotient the  *)
(* engine forms on the inputs of this model is a whole number of units.    *)
(* The code computes them in binary floating point, so the overall quality *)
(* it compares with 0.6 and 0.5 can lie a rounding error below or above    *)
(* the exact fraction (0.5999999999999999 for 0.6): the sign of that error *)
(* is an input of validate_analysis, any of FloatErrors, and the report    *)
(* keeps it where the score sits on one of the two thresholds.             *)

Unit == 3600

CRITICAL == "critical"
HIGH == "high"
MEDIUM == "medium"
LOW == "low"

ValidationIssue(risk_level, category, impact_score) ==
    [risk_level |-> risk_level, category |-> category,
     impact_score |-> impact_score]

Clamp(score) == Max(0, Min(Unit, score))

\* the topics of the resources of a RAG result
ResourceTopics(resources) ==
    {Get(resources[i], "topic", "") : i \in 1..Len(resources)}

\* covered_skills of validate_skill_coverage
CoveredSkills(gap_analysis, rag, github_analysis) ==
    (IF Truthy(gap_analysis) /\ "identified_gaps" \in DOMAIN gap_analysis.data
     THEN ToSet(gap_analysis.data.identified_gaps) ELSE {})
    \cup
    (IF Truthy(rag) /\ "resources" \in DOMAIN rag.data
     THEN ResourceTopics(rag.data.resources) ELSE {})
    \cup
    (IF Truthy(github_analysis) /\ "proven_skills" \in DOMAIN github_analysis.data
     THEN ToSet(Get(github_analysis.data.proven_skills,
                    "programming_languages", <<>>))
          \cup ToSet(Get(github_analysis.data.proven_skills,
                         "frameworks_and_tools", <<>>))
     ELSE {})

\* a coverage that divides by the number of covered skills first
CoverageOfNothingIsZero(covered_set, required_set) ==
    IF covered_set # {}
    THEN (Cardinality(covered_set) * Unit) \div Cardinality(required_set)
    ELSE 0

\* "len(covered_set) / len(required_set) if required_set else 1.0"
Coverage(covered_set, required_set) ==
    IF required_set # {}
    THEN (Cardinality(covered_set) * Unit) \div Cardinality(required_set)
    ELSE Unit

\* "if uncovered and len(uncovered) > len(required_set) * 0.3"
CoverageIssue(uncovered, required_set) ==
    uncovered # {} /\ 10 * Cardinality(uncovered) > 3 * Cardinality(required_set)

validate_skill_coverage(required_skills, gap_analysis, rag, github_analysis) ==
    LET required_set == ToSet(required_skills)
        covered_set == CoveredSkills(gap_analysis, rag, github_analysis)
                           \cap required_set
        coverage == Coverage(covered_set, required_set)
        uncovered == required_set \ covered_set
    IN  [score |-> coverage,
         issues |-> IF CoverageIssue(uncovered, required_set)
                    THEN <<ValidationIssue(HIGH, "skill_coverage", 70)>>
                    ELSE <<>>]

\* the learning plans of the model and what the validator reads in them:
\* len(plan) and whether a phase, resource or metric keyword occurs
PlanFeatures(plan) ==
    CASE plan = "" ->
           [length |-> 0, phases |-> FALSE, resources |-> FALSE, metrics |-> FALSE]
      [] plan = "plan text" ->
           [length |-> 9, phases |-> FALSE, resources |-> FALSE, metrics |-> FALSE]
      [] plan = "week 1: sql course" ->
           [length |-> 18, phases |-> TRUE, resources |-> TRUE, metrics |-> FALSE]
      [] plan = "<600 characters: phases, courses, milestones>" ->
           [length |-> 600, phases |-> TRUE, resources |-> TRUE, metrics |-> TRUE]
      [] plan = "<2500 characters: phases, courses, milestones>" ->
           [length |-> 2500, phases |-> TRUE, resources |-> TRUE, metrics |-> TRUE]

validate_learning_plan_quality(plan, arg_skill_gaps, github_analysis) ==
    LET f == PlanFeatures(plan)
        base == IF f.length < 500 THEN (3 * Unit) \div 10
                ELSE IF f.length > 2000 THEN (9 * Unit) \div 10
                ELSE (7 * Unit) \div 10
        score == base - (IF f.phases THEN 0 ELSE Unit \div 10)
                      - (IF f.resources THEN 0 ELSE (2 * Unit) \div 10)
                      - (IF f.metrics THEN 0 ELSE Unit \div 10)
    IN  [score |-> Clamp(score),
         issues |->
            (IF f.length < 500
             THEN <<ValidationIssue(MEDIUM, "plan_completeness", 40)>> ELSE <<>>)
            \o (IF f.phases
                THEN <<>> ELSE <<ValidationIssue(MEDIUM, "plan_structure", 30)>>)
            \o (IF f.resources
                THEN <<>> ELSE <<ValidationIssue(HIGH, "resource_guidance", 40)>>)
            \o (IF f.metrics
                THEN <<>> ELSE <<ValidationIssue(MEDIUM, "success_criteria", 30)>>)]

validate_github_integration(username, github_analysis, arg_current_skills) ==
    IF ~TruthyStr(username)
    THEN [score |-> Unit, issues |-> <<>>]
    ELSE IF ~Truthy(github_analysis)
    THEN [score |-> (3 * Unit) \div 10,
          issues |-> <<ValidationIssue(HIGH, "github_analysis_missing", 60)>>]
    ELSE LET proven_skills == Get(github_analysis.data, "proven_skills", EmptyDict)
             gh_languages == ToSet(Get(proven_skills, "programming_languages", <<>>))
             integration_score ==
                 (Cardinality(gh_languages \cap ToSet(arg_current_skills)) * Unit)
                     \div Max(1, Cardinality(gh_languages))
         IN  IF gh_languages = {}
             THEN [score |-> Unit \div 2,
                   issues |-> <<ValidationIssue(MEDIUM, "github_skill_extraction", 30)>>]
             ELSE [score |-> Min(Unit, integration_score + Unit \div 2),
                   issues |-> IF 2 * integration_score < Unit
                              THEN <<ValidationIssue(LOW, "github_skill_alignment", 20)>>
                              ELSE <<>>]

\* len(resources) of a RAG result, 0 when it has none
ResourceCount(rag) ==
    IF Truthy(rag) /\ "resources" \in DOMAIN rag.data
    THEN Len(rag.data.resources) ELSE 0

\* the data-source test written <= 2 instead of < 2
TooFewSourcesAtTwo(sources_available) == sources_available <= 2

\* "if sources_available < 2"
TooFewSources(sources_available) == sources_available < 2

\* a count of the slots that hold a non-empty mapping
SourcesAvailableTruthy(rag, skill_validation, market_research, gap_analysis) ==
    CountTrue(<<Truthy(rag), Truthy(skill_validation),
                Truthy(market_research), Truthy(gap_analysis)>>)

\* "Check which data sources are available": the slots that are not None
SourcesAvailable(rag, skill_validation, market_research, gap_analysis) ==
    CountTrue(<<IsNotNone(rag), IsNotNone(skill_validation),
                IsNotNone(market_research), IsNotNone(gap_analysis)>>)

validate_data_sources(rag, skill_validation, market_research, gap_analysis) ==
    LET sources_available ==
            SourcesAvailable(rag, skill_validation, market_research, gap_analysis)
        source_quality == (sources_available * Unit) \div 4
        few_resources == /\ Truthy(rag)
                         /\ "resources" \in DOMAIN rag.data
                         /\ ResourceCount(rag) < 3
    IN  [score |-> Clamp(source_quality
                           - (IF few_resources THEN Unit \div 10 ELSE 0)),
         issues |->
            (IF TooFewSources(sources_available)
             THEN <<ValidationIssue(CRITICAL, "insufficient_data_sources", 80)>>
             ELSE <<>>)
            \o (IF few_resources
                THEN <<ValidationIssue(MEDIUM, "insufficient_resources", 30)>>
                ELSE <<>>)]

\* the metrics of calculate_analysis_metrics that validate_analysis reads;
\* overall_confidence is in hundredths, like analysis_confidence_score
calculate_analysis_metrics(rag, skill_validation, market_research, gap_analysis, github_analysis) ==
    LET learning_resources == ResourceCount(rag)
        gap_depth == IF Truthy(gap_analysis)
                     THEN Len(Get(gap_analysis.data, "identified_gaps", <<>>))
                     ELSE 0
    IN  [overall_confidence |->
             Min(100,
                 (CountTrue(<<IsNotNone(rag), IsNotNone(skill_validation),
                              IsNotNone(market_research), IsNotNone(gap_analysis),
                              IsNotNone(github_analysis)>>) * 100) \div 4),
         data_quality_score |->
             Min(Unit, (learning_resources * Unit) \div 5 + Unit \div 2),
         analysis_rigor_score |->
             Min(Unit, (gap_depth * Unit) \div 5 + Unit \div 2)]

\* the issues of a risk level
IssuesAt(issues, level) == {i \in 1..Len(issues) : issues[i].risk_level = level}

\* sign of the rounding error of a float: below, equal to or above the fraction
FloatErrors == {-1, 0, 1}

\* "score < tenths / 10" and "score > tenths / 10" on a float score
ScoreBelow(score, error, tenths) ==
    10 * score < tenths * Unit \/ (10 * score = tenths * Unit /\ error < 0)

ScoreAbove(score, error, tenths) ==
    10 * score > tenths * Unit \/ (10 * score = tenths * Unit /\ error > 0)

\* a revision decision that ignores the quality score
RequiresRevisionAnyHigh(issues, overall_quality, error) ==
    \/ IssuesAt(issues, CRITICAL) # {}
    \/ Cardinality(IssuesAt(issues, HIGH)) > 1

\* "Determine if revision needed"
RequiresRevision(issues, overall_quality, error) ==
    \/ Cardinality(IssuesAt(issues, CRITICAL)) > 0
    \/ /\ Cardinality(IssuesAt(issues, HIGH)) > 1
       /\ ScoreBelow(overall_quality, error, 6)

validate_analysis(required_skills, arg_current_skills, arg_skill_gaps, plan, username, rag, skill_validation, market_research, gap_analysis, github_analysis, error) ==
    LET coverage == validate_skill_coverage(required_skills, gap_analysis, rag,
                                            github_analysis)
        plan_quality == validate_learning_plan_quality(plan, arg_skill_gaps,
                                                       github_analysis)
        github_quality == validate_github_integration(username, github_analysis,
                                                      arg_current_skills)
        source_quality == validate_data_sources(rag, skill_validation,
                                                market_research, gap_analysis)
        all_issues == coverage.issues \o plan_quality.issues
                          \o github_quality.issues \o source_quality.issues
        metrics == calculate_analysis_metrics(rag, skill_validation,
                                              market_research, gap_analysis,
                                              github_analysis)
        completeness_score ==
            Min(Unit, (coverage.score + source_quality.score + plan_quality.score)
                          \div 3)
        reliability_score ==
            Min(Unit, (github_quality.score + metrics.data_quality_score
                           + metrics.analysis_rigor_score) \div 3)
        overall_quality == (completeness_score + reliability_score) \div 2
        requires_revision == RequiresRevision(all_issues, overall_quality, error)
        recommendations ==
            (IF 10 * plan_quality.score < 6 * Unit
             THEN <<"Regenerate learning plan with more detail and structure">>
             ELSE <<>>)
            \o (IF 10 * coverage.score < 7 * Unit
                THEN <<"Perform additional RAG queries for uncovered skills">>
                ELSE <<>>)
            \o (IF 2 * source_quality.score < Unit
                THEN <<"Run market research and skill validation tools">>
                ELSE <<>>)
            \o (IF 2 * github_quality.score < Unit /\ TruthyStr(username)
                THEN <<"Retry GitHub profile analysis">> ELSE <<>>)
    IN  [is_valid |-> ~requires_revision /\ ScoreAbove(overall_quality, error, 5),
         overall_quality_score |-> overall_quality,
         quality_error |-> IF 10 * overall_quality \in {5 * Unit, 6 * Unit}
                           THEN error ELSE 0,
         overall_confidence |-> metrics.overall_confidence,
         issues |-> all_issues,
         completeness_score |-> completeness_score,
         reliability_score |-> reliability_score,
         validation_details |-> metrics,
         recommendations |->
             IF recommendations = <<>>
             THEN <<"Analysis looks good - proceed with learning plan">>
             ELSE recommendations,
         requires_revision |-> requires_revision]

\* a validate that leaves the iteration counter alone
IterationsUncounted(iterations) == iterations

\* state["reflection_iterations"] += 1
IterationsAfterValidate(iterations) == iterations + 1

\* self_validate_analysis
Validate ==
    /\ pc = "validate"
    /\ IF reflection_iterations = MissingNumber
       THEN /\ NodeRaises("validate", node_start(events_history, "validate"),
                          KeyError("reflection_iterations"))
            /\ UNCHANGED <<quality, agent_reasoning, analysis_confidence_score,
                           reflection_iterations>>
       ELSE /\ \E error \in FloatErrors :
               LET report ==
                       validate_analysis(skills_required, current_skills,
                                         skill_gaps, learning_plan,
                                         github_username, rag_results,
                                         skill_validation_results,
                                         market_research_results,
                                         gap_analysis_results,
                                         IF github_analysis_results = Missing
                                         THEN None ELSE github_analysis_results,
                                         error)
                   noted == Append(agent_reasoning, "Validation complete")
               IN  /\ validation_report' = Some(report)
                   /\ analysis_quality_score' = report.overall_quality_score
                   /\ agent_reasoning' =
                        IF report.requires_revision
                        THEN Append(noted, "Revision needed") ELSE noted
            /\ analysis_confidence_score' = OverallConfidence
            /\ reflection_iterations' =
                 IterationsAfterValidate(reflection_iterations)
            /\ events_history' =
                 node_end(emit_event(node_start(events_history, "validate"),
                                     VALIDATION_RESULT, "validate", NoneStr,
                                     "completed", NoneStr),
                          "validate")
            /\ pc' = Edge("validate")
    /\ UNCHANGED <<inputs, loop, slots, current_skills, skills_required,
                   skill_gaps, tool_call_count, executed_tools, learning_plan,
                   route>>

Next ==
    \/ ExtractSkills
    \/ Think
    \/ ExecuteToolsStart
    \/ ToolStart
    \/ ToolReturn
    \/ ExecuteToolsEnd
    \/ Reflect
    \/ GeneratePlan
    \/ Validate

Spec == Init /\ [][Next]_vars

\* a run started by either caller of agent.invoke: JobAnalysisService.analyze_job
\* or the /analyze handler of app/main.py, which passes no GitHub handle
EntryInit ==
    /\ pc = "extract_skills"
    /\ current_skills = <<"python">>
    /\ max_tool_calls = MaxBudget
    /\ \/ github_username \in {NoneStr, "octocat"} /\ InitState
       \/ github_username = NoneStr /\ MainInitState
    /\ InitEmitter
    /\ tool_idx = 0
    /\ tool_type = NoneStr
    /\ outcome = NoOutcome
    /\ result = NoCall
    /\ route = NoneStr

EntrySpec == EntryInit /\ [][Next]_vars


----------------------------------------------------------------------------
(* router as a function of an arbitrary state: the conditional edge is     *)
(* evaluated once on a state drawn from every combination of counter,      *)
(* budget and slot contents.                                               *)

\* what a slot can hold: None, or the data of any result of its tool
SlotValues(t) ==
    {None} \cup {Some(execute_tool(t, << >>, o).value.data) : o \in ToolOutcomes(t)}

RouterInit ==
    /\ pc = "router"
    /\ github_username = NoneStr
    /\ current_skills = <<>>
    /\ skills_required = <<>>
    /\ skill_gaps = <<>>
    /\ rag_results \in SlotValues(RAG_QUERY)
    /\ skill_validation_results \in SlotValues(SKILL_VALIDATOR)
    /\ market_research_results = None
    /\ gap_analysis_results \in SlotValues(GAP_ANALYZER)
    /\ learning_plan_results = None
    /\ github_analysis_results \in SlotValues(GITHUB_ANALYZER)
    /\ analysis_confidence_score = 0
    /\ analysis_quality_score = 0
    /\ validation_report = None
    /\ tool_call_count \in 0..(MaxBudget + 1)
    /\ max_tool_calls \in 0..MaxBudget
    /\ executed_tools = <<>>
    /\ agent_reasoning = <<>>
    /\ reflection_iterations = 0
    /\ learning_plan = ""
    /\ InitEmitter
    /\ tool_idx = 0
    /\ tool_type = NoneStr
    /\ outcome = NoOutcome
    /\ result = NoCall
    /\ route = NoneStr

RouterApply ==
    /\ pc = "router"
    /\ route' = router(RouterState)
    /\ pc' = router(RouterState)
    /\ UNCHANGED <<inputs, quality, loop, slots, current_skills, skills_required,
                   skill_gaps, analysis_confidence_score, tool_call_count,
                   executed_tools, agent_reasoning, reflection_iterations,
                   learning_plan, events_history>>

RouterNext == RouterApply

RouterSpec == RouterInit /\ [][RouterNext]_vars

----------------------------------------------------------------------------
(* execute_tool as a function: one call for every tool identifier, every   *)
(* argument combination below and every behaviour of the capability.       *)

ToolInit ==
    /\ pc = "execute_tool"
    /\ tool_type \in ToolType
    /\ github_username \in {NoneStr, "", "octocat"}
    /\ current_skills \in {<<>>, <<"python">>}
    /\ skills_required \in {<<>>, <<"python", "sql">>}
    /\ skill_gaps = <<>>
    /\ rag_results = None
    /\ skill_validation_results = None
    /\ market_research_results = None
    /\ gap_analysis_results = None
    /\ learning_plan_results = None
    /\ github_analysis_results = None
    /\ analysis_confidence_score = 0
    /\ analysis_quality_score = 0
    /\ validation_report = None
    /\ tool_call_count = 0
    /\ max_tool_calls = MaxBudget
    /\ executed_tools = <<>>
    /\ agent_reasoning = <<>>
    /\ reflection_iterations = 0
    /\ learning_plan = ""
    /\ InitEmitter
    /\ tool_idx = 0
    /\ outcome = NoOutcome
    /\ result = NoCall
    /\ route = NoneStr

ExecuteTool ==
    /\ pc = "execute_tool"
    /\ \E o \in ToolOutcomes(tool_type) :
         /\ outcome' = o
         /\ result' = execute_tool(tool_type,
                                   [required_skills |-> skills_required,
                                    current_skills |-> current_skills,
                                    github_username |-> github_username],
                                   o)
    /\ pc' = "returned"
    /\ UNCHANGED <<inputs, quality, slots, current_skills, skills_required, skill_gaps,
                   analysis_confidence_score, tool_call_count, executed_tools,
                   agent_reasoning, reflection_iterations, learning_plan,
                   tool_idx, tool_type, route, events_history>>

ToolNext == ExecuteTool

ToolSpec == ToolInit /\ [][ToolNext]_vars


----------------------------------------------------------------------------
(* The GitHub branch of agent_execute_tools as a function of the declared  *)
(* skills and of the analysis: the same analysis is merged up to MaxMerges *)
(* times into a skill list that may hold duplicates.                       *)

SkillNames == {"python", "go", "sql"}

\* the lists of at most n declared skills, duplicates included
SkillLists(n) == UNION {[1..k -> SkillNames] : k \in 0..n}

\* what the GitHub capability reports: a failure, or languages by usage
MergeOutcomes ==
    {Fails("network error")} \cup
    {Responds([languages |-> langs, technologies |-> <<>>,
               project_types |-> <<>>, activity |-> 40]) :
        langs \in {<<>>, <<"go">>, <<"python">>, <<"go", "python">>,
                   <<"sql", "go">>}}

MergeInit ==
    /\ pc = "merge"
    /\ github_username = "octocat"
    /\ current_skills \in SkillLists(MaxSkills)
    /\ max_tool_calls = MaxBudget
    /\ InitState
    /\ InitEmitter
    /\ tool_idx = 1
    /\ tool_type = GITHUB_ANALYZER
    /\ outcome \in MergeOutcomes
    /\ result = NoCall
    /\ route = NoneStr

\* one iteration of the for loop on GITHUB_ANALYZER, the capability answering
\* as it did before
MergeGitHub ==
    /\ pc = "merge"
    /\ Len(executed_tools) < MaxMerges
    /\ LET kwargs == [required_skills |-> skills_required,
                      current_skills |-> current_skills,
                      github_username |-> github_username]
           call == execute_tool(tool_type, kwargs, outcome)
       IN  /\ result' = call
           /\ StoreResults(tool_type, call.value.data)
           /\ current_skills' \in EnrichedSkills(tool_type, call.value)
           /\ executed_tools' = Append(executed_tools, tool_type)
           /\ events_history' =
                emit_event(emit_event(events_history, TOOL_START, NoneStr,
                                      tool_type, "executing", NoneStr),
                           TOOL_END, NoneStr, tool_type,
                           IF call.value.success THEN "completed" ELSE "error",
                           NoneStr)
    /\ UNCHANGED <<inputs, quality, pc, skills_required, analysis_confidence_score,
                   tool_call_count, agent_reasoning, reflection_iterations,
                   learning_plan, tool_idx, tool_type, outcome, route>>

MergeNext == MergeGitHub

MergeSpec == MergeInit /\ [][MergeNext]_vars

----------------------------------------------------------------------------
(* The event bus on its own: callers subscribe, unsubscribe, emit and read  *)
(* the graph view in any order, on an emitter whose capacity is small       *)
(* enough for the oldest events to be dropped.                              *)

\* the fields of the run state, which the bus never touches
agent_state ==
    <<github_username, current_skills, skills_required, skill_gaps, slots,
      analysis_confidence_score, quality, tool_call_count, max_tool_calls,
      executed_tools, agent_reasoning, reflection_iterations, learning_plan,
      tool_idx, tool_type, outcome, route>>

Runs == {"run-a", "run-b"}

\* the events the callers emit: node events of two nodes, and events of
\* other types with and without a node name
BusEvents ==
    {AgentEvent(NODE_START, "think", NoneStr, "processing", NoneStr),
     AgentEvent(NODE_END, "think", NoneStr, "completed", NoneStr),
     AgentEvent(NODE_ERROR, "think", NoneStr, NoneStr, "llm unavailable"),
     AgentEvent(NODE_START, "validate", NoneStr, "processing", NoneStr),
     AgentEvent(REASONING, "think", NoneStr, NoneStr, NoneStr),
     AgentEvent(TOOL_START, NoneStr, GAP_ANALYZER, "executing", NoneStr)}

IdleState ==
    /\ github_username = NoneStr
    /\ current_skills = <<>>
    /\ max_tool_calls = MaxBudget
    /\ InitState
    /\ tool_idx = 0
    /\ tool_type = NoneStr
    /\ outcome = NoOutcome
    /\ route = NoneStr

BusInit ==
    /\ pc = "idle"
    /\ IdleState
    /\ result = Returned(None)
    /\ subscribers = <<>>
    /\ events_history = <<>>
    /\ max_history_size \in 1..MaxCapacity
    /\ session_id = NoneStr
    /\ emitted = <<>>
    /\ invoked = <<>>

\* AgentEventEmitter.subscribe
Subscribe ==
    /\ pc = "idle"
    /\ Len(subscribers) < MaxSubscribers
    /\ \E callback \in Callbacks : subscribers' = Append(subscribers, callback)
    /\ result' = Returned(None)
    /\ invoked' = <<>>
    /\ UNCHANGED <<pc, agent_state, events_history, max_history_size,
                   session_id, emitted>>

\* list.remove: the first occurrence goes
Remove(list, x) ==
    LET first == CHOOSE i \in 1..Len(list) :
                     list[i] = x /\ \A j \in 1..(i - 1) : list[j] # x
    IN  SubSeq(list, 1, first - 1) \o SubSeq(list, first + 1, Len(list))

\* AgentEventEmitter.unsubscribe
Unsubscribe ==
    /\ pc = "idle"
    /\ \E callback \in Callbacks :
         subscribers' = IF callback \in ToSet(subscribers)
                        THEN Remove(subscribers, callback)
                        ELSE subscribers
    /\ result' = Returned(None)
    /\ invoked' = <<>>
    /\ UNCHANGED <<pc, agent_state, events_history, max_history_size,
                   session_id, emitted>>

\* AgentEventEmitter.emit called by a run: history, then every subscriber
BusEmit(run) ==
    /\ pc = "idle"
    /\ Len(emitted) < MaxEmits
    /\ \E event \in BusEvents :
         LET notified == Notify(subscribers, event, <<>>)
         IN  /\ events_history' = emit(events_history, event)
             /\ emitted' = Append(emitted, [run |-> run, event |-> event,
                                            session |-> session_id])
             /\ invoked' = notified.invoked
             /\ result' = notified.call
             /\ pc' = IF notified.call.raised THEN ABORTED ELSE "idle"
    /\ UNCHANGED <<agent_state, max_history_size, subscribers, session_id>>

\* AgentEventEmitter.get_graph_visualization
GetGraphVisualization ==
    /\ pc = "idle"
    /\ result' = Returned(Some(get_graph_visualization))
    /\ invoked' = <<>>
    /\ UNCHANGED <<pc, agent_state, events_history, max_history_size,
                   subscribers, session_id, emitted>>

BusNext ==
    \/ Subscribe
    \/ Unsubscribe
    \/ BusEmit("run-a")
    \/ GetGraphVisualization

BusSpec == BusInit /\ [][BusNext]_vars

----------------------------------------------------------------------------
(* Two runs on the process-wide emitter: each announces its session         *)
(* identifier with set_session_id and emits events, in any interleaving.    *)

\* the identifier a run passes to set_session_id
SessionIdOf(run) == "session-of-" \o run

\* the session identifier found in an event, None when it has no such field
SessionOf(event) ==
    IF "session_id" \in DOMAIN event THEN event.session_id ELSE NoneStr

SessionInit ==
    /\ pc = "idle"
    /\ IdleState
    /\ result = Returned(None)
    /\ InitEmitter

\* AgentEventEmitter.set_session_id
SetSessionId(run) ==
    /\ pc = "idle"
    /\ session_id' = SessionIdOf(run)
    /\ result' = Returned(None)
    /\ invoked' = <<>>
    /\ UNCHANGED <<pc, agent_state, events_history, max_history_size,
                   subscribers, emitted>>

SessionNext ==
    \E run \in Runs :
        \/ SetSessionId(run)
        \/ BusEmit(run)

SessionSpec == SessionInit /\ [][SessionNext]_vars

----------------------------------------------------------------------------
(* The reflection engine as a function: validate_skill_coverage,           *)
(* validate_data_sources and validate_analysis are applied once to every   *)
(* combination of the inputs below.                                        *)

RequiredLists ==
    {<<>>, <<"sql">>, <<"sql", "sql">>, <<"sql", "go">>, <<"python", "sql">>,
     <<"python", "sql", "go">>, <<"python", "sql", "go", "rust">>,
     <<"sql", "go", "rust", "python", "java">>}

\* a RAG result with three resources, next to what rag_query_tool leaves
RagValues ==
    SlotValues(RAG_QUERY) \cup
    {Some([rag_response |-> "insights",
           evaluation |-> [relevance_score |-> 90],
           resources |-> <<[topic |-> "sql", type |-> "course"],
                           [topic |-> "rust", type |-> "book"],
                           [topic |-> "java", type |-> "course"]>>])}

PlanTexts ==
    {"plan text", "week 1: sql course",
     "<600 characters: phases, courses, milestones>",
     "<2500 characters: phases, courses, milestones>"}

ValidationInit ==
    /\ pc = "validation"
    /\ github_username \in {NoneStr, "octocat"}
    /\ current_skills \in {<<"python">>, <<"python", "go">>}
    /\ skills_required \in RequiredLists
    /\ skill_gaps = <<"sql">>
    /\ rag_results \in RagValues
    /\ skill_validation_results \in {None, Some(EmptyDict)}
    /\ market_research_results \in {None, Some([market_analysis |-> "market"])}
    /\ gap_analysis_results \in SlotValues(GAP_ANALYZER)
    /\ learning_plan_results = None
    /\ github_analysis_results \in SlotValues(GITHUB_ANALYZER)
    /\ analysis_confidence_score = 0
    /\ analysis_quality_score = 0
    /\ validation_report = None
    /\ tool_call_count = 1
    /\ max_tool_calls = MaxBudget
    /\ executed_tools = <<>>
    /\ agent_reasoning = <<>>
    /\ reflection_iterations = 0
    /\ learning_plan \in PlanTexts
    /\ InitEmitter
    /\ tool_idx = 0
    /\ tool_type = NoneStr
    /\ outcome = NoOutcome
    /\ result = NoCall
    /\ route = NoneStr

ValidateSkillCoverage ==
    /\ pc = "validation"
    /\ result' = Returned(validate_skill_coverage(skills_required,
                                                  gap_analysis_results,
                                                  rag_results,
                                                  github_analysis_results))
    /\ pc' = "skill_coverage"
    /\ UNCHANGED <<inputs, quality, slots, current_skills, skills_required,
                   skill_gaps, analysis_confidence_score, tool_call_count,
                   executed_tools, agent_reasoning, reflection_iterations,
                   learning_plan, tool_idx, tool_type, outcome, route,
                   events_history>>

ValidateDataSources ==
    /\ pc = "validation"
    /\ result' = Returned(validate_data_sources(rag_results,
                                                skill_validation_results,
                                                market_research_results,
                                                gap_analysis_results))
    /\ pc' = "data_sources"
    /\ UNCHANGED <<inputs, quality, slots, current_skills, skills_required,
                   skill_gaps, analysis_confidence_score, tool_call_count,
                   executed_tools, agent_reasoning, reflection_iterations,
                   learning_plan, tool_idx, tool_type, outcome, route,
                   events_history>>

ValidateAnalysis ==
    /\ pc = "validation"
    /\ \E error \in FloatErrors :
         validation_report' =
           Some(validate_analysis(skills_required, current_skills, skill_gaps,
                                  learning_plan, github_username, rag_results,
                                  skill_validation_results,
                                  market_research_results, gap_analysis_results,
                                  github_analysis_results, error))
    /\ pc' = "report"
    /\ UNCHANGED <<inputs, loop, slots, current_skills, skills_required,
                   skill_gaps, analysis_confidence_score,
                   analysis_quality_score, tool_call_count, executed_tools,
                   agent_reasoning, reflection_iterations, learning_plan,
                   route, events_history>>

ValidationNext ==
    \/ ValidateSkillCoverage
    \/ ValidateDataSources
    \/ ValidateAnalysis

ValidationSpec == ValidationInit /\ [][ValidationNext]_vars

----------------------------------------------------------------------------
(* Reading the event history *)

IsNodeStart(e, node) == e.type = NODE_START /\ e.node_name = node

\* indices of the events of a type
EventsOfType(type) ==
    {i \in 1..Len(events_history) : events_history[i].type = type}

IsStartEvent(e) == e.type = NODE_START

\* the nodes started so far, in order
NodeStarts ==
    LET started == SelectSeq(events_history, IsStartEvent)
    IN  [i \in 1..Len(started) |-> started[i].node_name]

\* number of execute_tools passes started so far
Passes ==
    Cardinality({i \in 1..Len(events_history) :
                    IsNodeStart(events_history[i], "execute_tools")})

\* index of the NODE_START of the latest execute_tools pass, 0 before the first
LastPassStart ==
    LET starts == {i \in 1..Len(events_history) :
                      IsNodeStart(events_history[i], "execute_tools")}
    IN  IF starts = {} THEN 0 ELSE CHOOSE i \in starts : \A j \in starts : j <= i

\* tool names of the events of a type in the latest pass, in order
PassTools(type) ==
    LET IsOfType(e) == e.type = type
        pass == IF LastPassStart = 0
                THEN <<>>
                ELSE SubSeq(events_history, LastPassStart, Len(events_history))
        found == SelectSeq(pass, IsOfType)
    IN  [i \in 1..Len(found) |-> found[i].tool_name]

\* a tool of the latest pass ended with status "error"
PassHasFailure ==
    LastPassStart > 0 /\
    \E i \in LastPassStart..Len(events_history) :
        events_history[i].type = TOOL_END /\ events_history[i].status = "error"

\* the slot that agent_execute_tools writes for a tool
SlotOf(t) ==
    CASE t = GAP_ANALYZER -> gap_analysis_results
      [] t = RAG_QUERY -> rag_results
      [] t = SKILL_VALIDATOR -> skill_validation_results
      [] t = MARKET_RESEARCH -> market_research_results
      [] t = LEARNING_PATH_GENERATOR -> learning_plan_results
      [] t = GITHUB_ANALYZER -> github_analysis_results

----------------------------------------------------------------------------
(* Callbacks that call back into the emitter while an event is delivered,  *)
(* and clear_history.  emit walks self.subscribers itself, not a copy: the *)
(* for loop holds a position in the list and stops when the position       *)
(* reaches the current length.                                             *)

MaxListeners == 3

\* "sse" only records the event, "once" unsubscribes itself, "bouncer"
\* unsubscribes "sse", "joiner" subscribes "late"
Listeners == {"sse", "once", "bouncer", "joiner", "late"}

\* AgentEventEmitter.unsubscribe on a subscriber list
unsubscribe(list, callback) ==
    IF callback \in ToSet(list) THEN Remove(list, callback) ELSE list

\* self.subscribers after the callback has run
AfterCallback(callback, list) ==
    CASE callback = "once" -> unsubscribe(list, "once")
      [] callback = "bouncer" -> unsubscribe(list, "sse")
      [] callback = "joiner" -> Append(list, "late")
      [] OTHER -> list

\* "for subscriber in self.subscribers" over the live list: position counts
\* the entries the loop has passed
RECURSIVE Deliver(_, _, _, _)
Deliver(list, position, event, done) ==
    IF position >= Len(list)
    THEN [subscribers |-> list, invoked |-> done]
    ELSE LET callback == list[position + 1]
         IN  Deliver(AfterCallback(callback, list), position + 1, event,
                     Append(done, [subscriber |-> callback, event |-> event,
                                   raised |-> FALSE]))

ListenerEvents ==
    {AgentEvent(NODE_START, "think", NoneStr, "processing", NoneStr),
     AgentEvent(NODE_END, "think", NoneStr, "completed", NoneStr)}

ListenerInit ==
    /\ pc = "idle"
    /\ IdleState
    /\ result = Returned(None)
    /\ subscribers = <<>>
    /\ events_history = <<>>
    /\ max_history_size = DefaultMaxHistorySize
    /\ session_id = NoneStr
    /\ emitted = <<>>
    /\ invoked = <<>>

\* AgentEventEmitter.subscribe with one of the callbacks above
ListenerSubscribe ==
    /\ pc = "idle"
    /\ Len(subscribers) < MaxListeners
    /\ \E callback \in Listeners : subscribers' = Append(subscribers, callback)
    /\ result' = Returned(None)
    /\ invoked' = <<>>
    /\ UNCHANGED <<pc, agent_state, events_history, max_history_size,
                   session_id, emitted>>

\* AgentEventEmitter.emit: history, then the loop over the live list
ReentrantEmit ==
    /\ pc = "idle"
    /\ Len(emitted) < MaxEmits
    /\ \E event \in ListenerEvents :
         LET delivered == Deliver(subscribers, 0, event, <<>>)
         IN  /\ events_history' = emit(events_history, event)
             /\ emitted' = Append(emitted, [run |-> "run-a", event |-> event,
                                            session |-> session_id])
             /\ subscribers' = delivered.subscribers
             /\ invoked' = delivered.invoked
    /\ result' = Returned(None)
    /\ UNCHANGED <<pc, agent_state, max_history_size, session_id>>

\* AgentEventEmitter.clear_history
ClearHistory ==
    /\ pc = "idle"
    /\ events_history' = <<>>
    /\ subscribers' = <<>>
    /\ result' = Returned(None)
    /\ invoked' = <<>>
    /\ UNCHANGED <<pc, agent_state, max_history_size, session_id, emitted>>

ListenerNext ==
    \/ ListenerSubscribe
    \/ ReentrantEmit
    \/ ClearHistory

ListenerSpec == ListenerInit /\ [][ListenerNext]_vars

----------------------------------------------------------------------------
(* Claims *)

\* C1: in every reachable state of a run, tool_call_count <= max_tool_calls,
\* for every max_tool_calls >= 0.
C1_CountWithinBudget == tool_call_count <= max_tool_calls

\* C2: no tool invocation is started (no TOOL_START event, no execute_tool
\* call) in a state with tool_call_count >= max_tool_calls; in such a state the
\* loop of execute_tools runs no tool and the node ends normally with NODE_END.
C2_NoToolStartedOverBudget ==
    /\ [](pc = "tool_call" => tool_call_count < max_tool_calls)
    /\ [][(Cardinality(EventsOfType(TOOL_START))' > Cardinality(EventsOfType(TOOL_START))
              \/ executed_tools' # executed_tools)
            => tool_call_count < max_tool_calls]_vars
    /\ [][(pc = "tool_loop" /\ tool_call_count >= max_tool_calls)
            => /\ pc' = "reflect"
               /\ Last(events_history').type = NODE_END
               /\ Last(events_history').node_name = "execute_tools"
               /\ executed_tools' = executed_tools]_vars

\* C2 witness: a pass that ran no tool because the budget was used up, after an
\* earlier pass did run tools, has ended normally.
C2_Witness ==
    /\ pc = "reflect"
    /\ tool_call_count >= max_tool_calls
    /\ Len(executed_tools) > 0
    /\ PassTools(TOOL_START) = <<>>
    /\ Last(events_history).type = NODE_END

\* C3: in each execute_tools pass, the number of tools invoked is at most the
\* budget that remains after the increment, max_tool_calls - tool_call_count.
C3_PassWithinRemainingBudget ==
    LastPassStart > 0 =>
        Len(PassTools(TOOL_START)) <= Max(0, max_tool_calls - tool_call_count)

\* C4: router returns "generate_plan" for every state with
\* tool_call_count >= max_tool_calls, whatever the slots hold.
C4_RouterBudget ==
    (pc # "router" /\ tool_call_count >= max_tool_calls) => route = "generate_plan"

\* C4 witness: the budget alone decided, with an empty gap-analysis slot.
C4_Witness ==
    /\ pc # "router"
    /\ tool_call_count >= max_tool_calls
    /\ gap_analysis_results = None
    /\ route = "generate_plan"

\* C5: with tool_call_count < max_tool_calls, router returns "generate_plan"
\* exactly when gap_analysis_results and rag_results are both non-null, even
\* when they hold the empty data of a failed tool, and "execute_tools" otherwise.
C5_RouterNonNullSlots ==
    (pc \in {"generate_plan", "execute_tools"} /\ route # NoneStr
        /\ tool_call_count < max_tool_calls)
    => /\ route \in {"generate_plan", "execute_tools"}
       /\ route = "generate_plan"
            <=> (IsNotNone(gap_analysis_results) /\ IsNotNone(rag_results))


\* the pairs (node, node started next) that the graph allows
GraphOrder ==
    {<<"extract_skills", "think">>, <<"think", "execute_tools">>,
     <<"execute_tools", "reflect">>, <<"reflect", "execute_tools">>,
     <<"reflect", "generate_plan">>, <<"generate_plan", "validate">>}

\* how often a node was started
TimesStarted(node) ==
    Cardinality({i \in 1..Len(NodeStarts) : NodeStarts[i] = node})

\* C6: nodes run in the order extract_skills, think, one or more
\* (execute_tools, reflect), generate_plan, validate: the first node is
\* extract_skills, a run ends only after validate, the four nodes outside the
\* loop run once in a complete run, and execute_tools is re-entered only
\* from reflect.
C6_NodeOrder ==
    LET started == NodeStarts
        times(n) == Cardinality({i \in 1..Len(started) : started[i] = n})
    IN  /\ Len(started) > 0 => started[1] = "extract_skills"
        /\ \A i \in 2..Len(started) : <<started[i - 1], started[i]>> \in GraphOrder
        /\ pc = END =>
             /\ Last(started) = "validate"
             /\ \A n \in {"extract_skills", "think", "generate_plan", "validate"} :
                    times(n) = 1
             /\ times("execute_tools") >= 1
             /\ times("reflect") = times("execute_tools")

\* C6 witness: a complete run that went through the loop more than once.
C6_Witness == pc = END /\ TimesStarted("execute_tools") > 1

\* C7: every run reaches validate and stops unless a node raises, whatever the
\* tools do, and execute_tools/reflect is executed at most
\* max(1, max_tool_calls) times.
C7_Terminates ==
    <>(/\ \/ pc = END /\ Last(NodeStarts) = "validate"
          \/ pc = ABORTED
       /\ Passes <= Max(1, max_tool_calls))

\* C7 witness: a complete run in which every tool failed on every pass and
\* the loop ran until the budget was used up.
C7_Witness ==
    /\ pc = END
    /\ max_tool_calls > 1
    /\ Passes = max_tool_calls
    /\ \A i \in EventsOfType(TOOL_END) : events_history[i].status = "error"
    /\ EventsOfType(TOOL_END) # {}

\* C8: execute_tool returns a ToolResult for every tool identifier and never
\* raises; when the capability call fails the result has success = false,
\* empty data, confidence 0.0 and a non-null error.
C8_ExecuteToolTotal ==
    pc = "returned" =>
        /\ ~result.raised
        /\ DOMAIN result.value = {"tool", "success", "data", "confidence", "error"}
        /\ result.value.tool = tool_type
        /\ result.value.success = ~outcome.fails
        /\ outcome.fails =>
             /\ result.value.data = EmptyDict
             /\ result.value.confidence = 0
             /\ result.value.error # NoneStr

\* C8 witness: a call whose capability failed has returned.
C8_Witness ==
    /\ pc = "returned"
    /\ outcome.fails
    /\ ~result.raised
    /\ tool_type = GITHUB_ANALYZER

\* C9: within one pass, a tool that returns success = false does not stop the
\* tools after it in the list and does not abort the node: every tool of the
\* list is started and ended in order, its slot is written, and the pass ends
\* with NODE_END.
C9_FailureDoesNotBlock ==
    /\ (pc = "reflect" /\ PassHasFailure) =>
          /\ PassTools(TOOL_START) = ToolsToExecute(github_username)
          /\ PassTools(TOOL_END) = ToolsToExecute(github_username)
          /\ \A i \in 1..Len(ToolsToExecute(github_username)) :
                 IsNotNone(SlotOf(ToolsToExecute(github_username)[i]))
          /\ Last(events_history).type = NODE_END
          /\ Last(events_history).node_name = "execute_tools"
    /\ (pc = "tool_loop" /\ PassHasFailure) =>
          tool_idx = Len(PassTools(TOOL_END)) + 1
    /\ (pc = ABORTED /\ Len(events_history) > 0) =>
          Last(events_history).node_name # "execute_tools"

\* C9 witness: a pass whose first tool failed has ended, the last tool of the
\* list having succeeded.
C9_Witness ==
    /\ pc = "reflect"
    /\ LastPassStart > 0
    /\ Len(events_history) > LastPassStart + 2
    /\ events_history[LastPassStart + 2].type = TOOL_END
    /\ events_history[LastPassStart + 2].status = "error"
    /\ events_history[Len(events_history) - 1].type = TOOL_END
    /\ events_history[Len(events_history) - 1].status = "completed"
    /\ events_history[Len(events_history) - 1].tool_name = SKILL_VALIDATOR

\* C10: no retries: a tool kind whose invocation returned success = false is
\* not invoked again in the same run.
C10_NoRetry ==
    \A i \in EventsOfType(TOOL_END) :
        events_history[i].status = "error" =>
            \A j \in EventsOfType(TOOL_START) :
                j > i => events_history[j].tool_name # events_history[i].tool_name

\* C11: after a successful GitHub result, the set of current_skills is the
\* previous set united with the proven programming languages, no declared
\* skill is lost, the list holds no duplicates, and merging the same list
\* again leaves the same elements.
C11_MergeIsSetUnion ==
    [][(pc = "merge" /\ result'.value.success) =>
          LET proven == result'.value.data.proven_skills.programming_languages
          IN  /\ ToSet(current_skills') = ToSet(current_skills) \cup ToSet(proven)
              /\ ToSet(current_skills) \subseteq ToSet(current_skills')
              /\ Cardinality(ToSet(current_skills')) = Len(current_skills')
              /\ Len(executed_tools) >= 1 =>
                    /\ ToSet(current_skills') = ToSet(current_skills)
                    /\ Len(current_skills') = Len(current_skills)]_vars

\* C11 witness: two languages, one of them already declared, were merged
\* twice into a list of two declared skills.
C11_Witness ==
    /\ pc = "merge"
    /\ Len(executed_tools) = 2
    /\ result.value.success
    /\ result.value.data.proven_skills.programming_languages = <<"sql", "go">>
    /\ ToSet(current_skills) = {"python", "go", "sql"}

\* C12: after n emit calls on an emitter of capacity N = max_history_size, the
\* history holds exactly min(n, N) events: the most recent ones, in emission
\* order.
C12_HistoryIsRecentWindow ==
    LET n == Len(emitted)
        kept == Min(n, max_history_size)
    IN  /\ Len(events_history) = kept
        /\ \A i \in 1..kept : events_history[i] = emitted[n - kept + i].event

\* C12 witness: three events were emitted on an emitter of capacity 2, so the
\* oldest one was dropped.
C12_Witness ==
    /\ pc = "idle"
    /\ Len(emitted) = 3
    /\ max_history_size = 2
    /\ emitted[1].event # emitted[2].event
    /\ events_history = <<emitted[2].event, emitted[3].event>>

\* C13: a subscriber that raises during emit does not make emit raise: every
\* subscriber registered for that emit is still called once with the event, in
\* registration order, the event is in the history, and the caller goes on.
C13_SubscriberErrorContained ==
    [][Len(emitted') > Len(emitted) =>
          /\ ~result'.raised
          /\ pc' = "idle"
          /\ invoked' = [i \in 1..Len(subscribers) |->
                            [subscriber |-> subscribers[i],
                             event |-> Last(emitted').event,
                             raised |-> SubscriberCall(subscribers[i],
                                                       Last(emitted').event).raised]]
          /\ subscribers' = subscribers
          /\ Last(events_history') = Last(emitted').event]_vars

\* C13 witness: the first of two subscribers raised, the second was still
\* called, and emit returned.
C13_Witness ==
    /\ pc = "idle"
    /\ ~result.raised
    /\ Len(invoked) = 2
    /\ invoked[1].subscriber = "broken" /\ invoked[1].raised
    /\ invoked[2].subscriber = "sse" /\ ~invoked[2].raised
    /\ invoked[2].event = Last(events_history)

\* C14: when two runs interleave on the process-wide bus, every emitted event
\* carries the session identifier of the run that emitted it.
C14_EventsCarrySession ==
    \A i \in 1..Len(emitted) :
        SessionOf(emitted[i].event) = SessionIdOf(emitted[i].run)

\* the status the graph view owes a node: that of the last NODE_START,
\* NODE_END or NODE_ERROR event in the history that names it
ExpectedStatus(node) ==
    LET about == {k \in 1..Len(events_history) :
                     /\ events_history[k].node_name = node
                     /\ events_history[k].type \in {NODE_START, NODE_END, NODE_ERROR}}
        last == CHOOSE k \in about : \A j \in about : j <= k
    IN  IF about = {} THEN "pending"
        ELSE IF events_history[last].type = NODE_START THEN "processing"
        ELSE IF events_history[last].type = NODE_END THEN "completed"
        ELSE "error"

\* C15: get_graph_visualization reports, for each of the six nodes, the status
\* given by the last NODE_START (processing), NODE_END (completed) or
\* NODE_ERROR (error) event naming it, pending when there is none; events of
\* other types are ignored, and the history and the subscriber list are left
\* as they were.
C15_GraphViewStatus ==
    /\ [](IsNotNone(result.value) =>
             LET view == result.value.data
             IN  /\ Len(view.nodes) = 6
                 /\ \A i \in 1..6 :
                        /\ view.nodes[i].id = NodeIds[i]
                        /\ view.nodes[i].status = ExpectedStatus(NodeIds[i]))
    /\ [][IsNotNone(result'.value) =>
             /\ events_history' = events_history
             /\ subscribers' = subscribers]_vars

\* C15 witness: the view was read when the history held a NODE_ERROR for
\* think followed by a REASONING event naming think: think shows error,
\* validate shows pending.
C15_Witness ==
    /\ IsNotNone(result.value)
    /\ Len(events_history) = 2
    /\ events_history[1].type = NODE_ERROR
    /\ events_history[2].type = REASONING
    /\ events_history[2].node_name = "think"
    /\ result.value.data.nodes[2].status = "error"
    /\ result.value.data.nodes[6].status = "pending"
    /\ subscribers # <<>>

\* C16: when a step inside a node raises, exactly one NODE_ERROR event naming
\* that node is emitted and no NODE_END for it, the exception leaves the graph,
\* no further node is started and the failing node is not executed again.
C16_NodeErrorOnce ==
    LET errors == EventsOfType(NODE_ERROR)
        started == NodeStarts
    IN  /\ pc = ABORTED <=> errors # {}
        /\ errors # {} =>
              LET failed == Last(events_history).node_name
                  begun == {i \in 1..Len(events_history) :
                               IsNodeStart(events_history[i], failed)}
                  entry == CHOOSE i \in begun : \A j \in begun : j <= i
              IN  /\ errors = {Len(events_history)}
                  /\ begun # {}
                  /\ Last(started) = failed
                  /\ \A i \in entry..Len(events_history) :
                         events_history[i].type # NODE_END
                  /\ \A i \in entry..Len(events_history) :
                         events_history[i].type = NODE_START => i = entry

\* C16 witness: the text-generation call of reflect raised on the second
\* pass through the loop.
C16_Witness ==
    /\ pc = ABORTED
    /\ Last(events_history).type = NODE_ERROR
    /\ Last(events_history).node_name = "reflect"
    /\ Passes = 2

\* C17: for every text the text-generation call of think returns (no JSON
\* object, an undecodable fragment, or a decodable object lacking keys such as
\* "reasoning"), think completes without raising, appends exactly one entry to
\* agent_reasoning and emits NODE_END.
C17_ThinkNeverFailsOnText ==
    [][(/\ pc = "think"
        /\ ~(/\ Last(events_history').type = NODE_ERROR
             /\ Last(events_history').error = LLMRaises.msg))
       => /\ pc' = Edge("think")
          /\ Len(agent_reasoning') = Len(agent_reasoning) + 1
          /\ SubSeq(agent_reasoning', 1, Len(agent_reasoning)) = agent_reasoning
          /\ Last(events_history').type = NODE_END
          /\ Last(events_history').node_name = "think"]_vars

\* the confidence values that the decodable responses of reflect produce
DecodedConfidences ==
    {ReflectConfidence(r.payload, 0, 0) :
        r \in {x \in ReflectResponses \ {LLMRaises} : x.payload.json = "object"}}

\* C18: whenever the response of reflect yields no decodable JSON (no braces
\* at all, or braces around invalid JSON), analysis_confidence_score after
\* reflect is the information-quality ratio, the share of non-null slots among
\* gap analysis, RAG, skill validation and GitHub.  Hence every reflect that
\* completes leaves either that ratio or a value taken from a decoded object.
C18_ReflectFallsBackToInfoQuality ==
    [][(pc = "reflect" /\ pc' # ABORTED) =>
          analysis_confidence_score' \in DecodedConfidences \cup {InfoQuality}]_vars

\* C19: reflection_iterations grows by exactly 1 on each execution of
\* validate and is left unchanged by every other node; a complete run that
\* starts from 0 ends with reflection_iterations = 1.
C19_IterationsCountValidate ==
    /\ [][reflection_iterations' =
             reflection_iterations + (IF pc = "validate" THEN 1 ELSE 0)]_vars
    /\ [](pc = END => reflection_iterations = 1)
    /\ [](pc \notin {END, ABORTED} => reflection_iterations = 0)

\* C19 witness: a complete run that went twice through the loop ended with
\* reflection_iterations = 1.
C19_Witness ==
    /\ pc = END
    /\ Passes = 2
    /\ TimesStarted("validate") = 1
    /\ reflection_iterations = 1

\* s is a prefix of t
IsPrefix(s, t) == Len(s) <= Len(t) /\ SubSeq(t, 1, Len(s)) = s

\* C20: executed_tools and agent_reasoning are append-only: across every
\* transition the previous value is a prefix of the new one.  Within a pass
\* executed_tools grows by the tools actually run, in the fixed order GitHub
\* analyzer (only when a handle is given), gap analyzer, RAG query, skill
\* validator.
C20_AppendOnlyFixedOrder ==
    /\ [][/\ IsPrefix(executed_tools, executed_tools')
          /\ IsPrefix(agent_reasoning, agent_reasoning')]_vars
    /\ [](LET order == IF github_username \notin {NoneStr, ""}
                       THEN <<"github_analyzer", "gap_analyzer", "rag_query",
                              "skill_validator">>
                       ELSE <<"gap_analyzer", "rag_query", "skill_validator">>
              run == PassTools(TOOL_END)
          IN  /\ IsPrefix(run, order)
              /\ Len(run) <= Len(executed_tools)
              /\ SubSeq(executed_tools, Len(executed_tools) - Len(run) + 1,
                        Len(executed_tools)) = run
              /\ Len(executed_tools) = Cardinality(EventsOfType(TOOL_END))
              /\ pc = "reflect" => run \in {<<>>, order})

\* C20 witness: with a GitHub handle, the second pass has added its four
\* tools after those of the first.
C20_Witness ==
    /\ pc = "reflect"
    /\ github_username = "octocat"
    /\ Passes = 2
    /\ executed_tools = <<GITHUB_ANALYZER, GAP_ANALYZER, RAG_QUERY, SKILL_VALIDATOR,
                          GITHUB_ANALYZER, GAP_ANALYZER, RAG_QUERY, SKILL_VALIDATOR>>
    /\ Len(agent_reasoning) >= 5

\* C21: in every report of validate_analysis, requires_revision is true
\* exactly when there is at least one CRITICAL issue, or more than one HIGH
\* issue together with overall quality below 0.6; is_valid is true exactly when
\* requires_revision is false and overall quality is above 0.5; the two are
\* never both true.
C21_RevisionDecision ==
    pc = "report" =>
        LET report == validation_report.data
            critical == {i \in 1..Len(report.issues) :
                            report.issues[i].risk_level = "critical"}
            high == {i \in 1..Len(report.issues) :
                        report.issues[i].risk_level = "high"}
            low_quality ==
                ScoreBelow(report.overall_quality_score, report.quality_error, 6)
        IN  /\ report.requires_revision
                  <=> (critical # {} \/ (Cardinality(high) > 1 /\ low_quality))
            /\ report.is_valid
                  <=> (/\ ~report.requires_revision
                       /\ ScoreAbove(report.overall_quality_score,
                                     report.quality_error, 5))
            /\ ~(report.is_valid /\ report.requires_revision)

\* C21 witness: a report with two HIGH issues and no CRITICAL one whose
\* quality is at least 0.6, so that no revision is required and it is valid.
C21_Witness ==
    /\ pc = "report"
    /\ IssuesAt(validation_report.data.issues, CRITICAL) = {}
    /\ Cardinality(IssuesAt(validation_report.data.issues, HIGH)) = 2
    /\ ~ScoreBelow(validation_report.data.overall_quality_score,
                   validation_report.data.quality_error, 6)
    /\ ~validation_report.data.requires_revision
    /\ validation_report.data.is_valid

\* C22: validate_data_sources returns exactly one CRITICAL issue, of category
\* "insufficient_data_sources", when fewer than 2 of the four slots (RAG,
\* skill validation, market research, gap analysis) are non-null, and none
\* otherwise; with all four None the quality is 0.0 and that issue is the
\* only one.
C22_InsufficientSources ==
    pc = "data_sources" =>
        LET issues == result.value.issues
            present == Cardinality({x \in {"rag", "skill", "market", "gap"} :
                           CASE x = "rag" -> rag_results # None
                             [] x = "skill" -> skill_validation_results # None
                             [] x = "market" -> market_research_results # None
                             [] x = "gap" -> gap_analysis_results # None})
            critical == {i \in 1..Len(issues) : issues[i].risk_level = "critical"}
        IN  /\ Cardinality(critical) = (IF present < 2 THEN 1 ELSE 0)
            /\ \A i \in critical :
                   issues[i].category = "insufficient_data_sources"
            /\ present = 0 =>
                   /\ result.value.score = 0
                   /\ Len(issues) = 1

\* C22 witness: one slot of four was non-null, a failed RAG query's empty
\* mapping, and the CRITICAL issue was returned.
C22_Witness ==
    /\ pc = "data_sources"
    /\ rag_results = Some(EmptyDict)
    /\ skill_validation_results = None
    /\ market_research_results = None
    /\ gap_analysis_results = None
    /\ Len(result.value.issues) = 1
    /\ result.value.issues[1].risk_level = CRITICAL

\* C23: validate_skill_coverage returns coverage exactly 1.0 if and only if
\* every required skill is in the union of the gap-analysis gaps, the RAG
\* resource topics and the GitHub proven languages and tools (an empty
\* required list counts as covered), and with coverage 1.0 it returns no issue.
C23_FullCoverage ==
    pc = "skill_coverage" =>
        /\ result.value.score = Unit
              <=> ToSet(skills_required)
                      \subseteq CoveredSkills(gap_analysis_results, rag_results,
                                              github_analysis_results)
        /\ result.value.score = Unit => result.value.issues = <<>>

\* C23 witness: two required skills, one covered by the gap analysis and
\* the RAG topics, the other by the GitHub languages: coverage 1.0, no issue.
C23_Witness ==
    /\ pc = "skill_coverage"
    /\ skills_required = <<"sql", "go">>
    /\ result.value.score = Unit
    /\ result.value.issues = <<>>

\* C24: analysis_quality_score and analysis_confidence_score lie in [0, 1] in
\* every reachable state of a run started with both at 0.0, whatever
\* confidence the response of reflect carries and whatever slots are
\* populated when validate runs.
C24_ScoresInUnitInterval ==
    /\ analysis_quality_score \in 0..Unit
    /\ analysis_confidence_score \in 0..100

\* C25: in every run that starts with market_research_results and
\* learning_plan_results at None, both are None in every reachable state and
\* neither the market-research tool nor the learning-path tool ever appears
\* in executed_tools, whatever think selects and however many passes run.
C25_MarketAndPlanSlotsStayNone ==
    /\ market_research_results = None
    /\ learning_plan_results = None
    /\ \A i \in 1..Len(executed_tools) :
           executed_tools[i] \notin {MARKET_RESEARCH, LEARNING_PATH_GENERATOR}

\* C25 witness: a run that ended after two passes of execute_tools in which
\* tools ran, with both slots still None
C25_Witness ==
    /\ pc = END
    /\ tool_call_count >= 2
    /\ Len(executed_tools) > Len(ToolsToExecute(github_username))
    /\ market_research_results = None
    /\ learning_plan_results = None

\* the tools that failed on every call of the run so far
EveryToolFailed ==
    \A i \in 1..Len(executed_tools) :
        SlotOf(executed_tools[i]) = Some(EmptyDict)

\* C26: the slot of every tool that ran is non-null, also when the tool
\* failed (it then holds the empty data mapping); hence in a run where tools
\* ran, even if every one of them failed on every pass, the report of validate
\* counts gap analysis, RAG and skill validation as available and carries no
\* CRITICAL "insufficient_data_sources" issue.
C26_FailedToolsStillCount ==
    /\ \A i \in 1..Len(executed_tools) : IsNotNone(SlotOf(executed_tools[i]))
    /\ (validation_report # None /\ Len(executed_tools) > 0)
          => /\ SourcesAvailable(rag_results, skill_validation_results,
                                 market_research_results,
                                 gap_analysis_results) >= 3
             /\ \A i \in 1..Len(validation_report.data.issues) :
                    validation_report.data.issues[i].category
                        # "insufficient_data_sources"

\* C26 witness: validate has reported on a run of two passes in which every
\* tool failed, the three slots holding the empty mapping
C26_Witness ==
    /\ validation_report # None
    /\ tool_call_count >= 2
    /\ Len(executed_tools) > Len(ToolsToExecute(github_username))
    /\ EveryToolFailed
    /\ gap_analysis_results = Some(EmptyDict)
    /\ rag_results = Some(EmptyDict)
    /\ skill_validation_results = Some(EmptyDict)

NodeEventTypes == {NODE_START, NODE_END, NODE_ERROR}

ToolEventTypes == {TOOL_START, TOOL_END}

IsNodeEvent(e) == e.type \in NodeEventTypes

IsToolEvent(e) == e.type \in ToolEventTypes

\* C27: the event stream of a run is well bracketed.  The node events
\* alternate: a NODE_START, then the NODE_END or NODE_ERROR of the same node,
\* before any other NODE_START.  The tool events alternate: a TOOL_START, then
\* the TOOL_END of the same tool, with no other event between them.  Every
\* tool event lies inside an open execute_tools node: what precedes a
\* TOOL_START is that node's NODE_START or a TOOL_END, what follows a TOOL_END
\* is a TOOL_START or that node's NODE_END.  A finished or aborted run leaves
\* no node and no tool open.
C27_EventsWellBracketed ==
    LET h == events_history
        n == Len(h)
        nodes == SelectSeq(h, IsNodeEvent)
        tools == SelectSeq(h, IsToolEvent)
    IN  /\ \A k \in 1..Len(nodes) :
              IF k % 2 = 1
              THEN nodes[k].type = NODE_START
              ELSE /\ nodes[k].type \in {NODE_END, NODE_ERROR}
                   /\ nodes[k].node_name = nodes[k - 1].node_name
        /\ \A k \in 1..Len(tools) :
              IF k % 2 = 1
              THEN tools[k].type = TOOL_START
              ELSE /\ tools[k].type = TOOL_END
                   /\ tools[k].tool_name = tools[k - 1].tool_name
        /\ \A i \in 1..n :
              /\ h[i].type = TOOL_START =>
                    /\ i > 1
                    /\ \/ IsNodeStart(h[i - 1], "execute_tools")
                       \/ h[i - 1].type = TOOL_END
                    /\ i < n => h[i + 1].type = TOOL_END
              /\ h[i].type = TOOL_END =>
                    /\ i > 1
                    /\ h[i - 1].type = TOOL_START
                    /\ i < n => \/ h[i + 1].type = TOOL_START
                                \/ /\ h[i + 1].type = NODE_END
                                   /\ h[i + 1].node_name = "execute_tools"
        /\ (pc \in {END, ABORTED} /\ n > 0) =>
              h[n].type \in {NODE_END, NODE_ERROR}

\* C27 witness: a finished run of two passes whose tools ran, the second
\* pass with a failing tool
C27_Witness ==
    /\ pc = END
    /\ Passes = 2
    /\ Cardinality(EventsOfType(TOOL_END)) > Len(ToolsToExecute(github_username))
    /\ \E i \in EventsOfType(TOOL_END) : events_history[i].status = "error"
    /\ Cardinality(EventsOfType(NODE_END)) = 8

\* number of calls of a callback among the calls of one emit
CallsOf(calls, callback) ==
    Cardinality({i \in 1..Len(calls) : calls[i].subscriber = callback})

\* number of entries of a callback in a subscriber list
EntriesOf(list, callback) ==
    Cardinality({i \in 1..Len(list) : list[i] = callback})

\* C28: emit invokes each subscriber that is registered when it starts
\* exactly once for the event (once per registration), also when a callback
\* subscribes or unsubscribes, itself or another callback, during delivery.
C28_RegisteredInvokedOnce ==
    [][emitted' # emitted =>
          \A callback \in ToSet(subscribers) :
              CallsOf(invoked', callback) = EntriesOf(subscribers, callback)]_vars

\* C29: clear_history empties the history and leaves the subscriber list as
\* it was, so the callbacks subscribed before it are invoked by the next emit.
C29_ClearKeepsSubscribers ==
    [][ClearHistory => (events_history' = <<>> /\ subscribers' = subscribers)]_vars

\* the errors of a node that read a key the state does not have
MissingFieldErrors ==
    {KeyError("github_analysis_results"), KeyError("analysis_confidence_score"),
     KeyError("reflection_iterations")}

\* C30: the initial state built by either caller (analyze_job of main.py,
\* JobAnalysisService.analyze_job) defines every field that a node reads by
\* key or increments, github_analysis_results, analysis_confidence_score and
\* reflection_iterations among them, so no node aborts, with a NODE_ERROR
\* naming the key, because a field is missing.
C30_NoMissingFieldAbort ==
    pc = ABORTED => Last(events_history).error \notin MissingFieldErrors

FairSpec == Spec /\ WF_vars(Next)


====
